---- MODULE Spec2Model ----
(***************************************************************************)
(* Model of src/unpacker.py: a firmware image splitter ("unpack") and      *)
(* joiner ("pack") driven by the fixed table firmware_parts.               *)
(*                                                                         *)
(* The state is the host file system (one content per path), the command   *)
(* line, the interpreter's position in the script, the script's variables  *)
(* (f, outfile, i, data, padding, the loop's part), standard output and    *)
(* the exit status.  One action per statement of the script.               *)
(*                                                                         *)
(* Sizes are scaled: the table keeps its shape (first part at offset 0, a  *)
(* gap, then the second part) with KernelSize, Gap and SquashSize standing *)
(* for 0x11AA97, 0x40 and 5505028-0x11AAD7.                                *)
(*                                                                         *)
(* The environment is assumed to let every open-for-writing and every      *)
(* write succeed (no permission error, no full disk).                      *)
(*                                                                         *)
(* A write shows in the file at once.  The writers are buffered, but no    *)
(* read of this script falls between a write to a file and the flush that  *)
(* follows it (outfile.close(), the interpreter's exit), so the moment of  *)
(* the flush is not observable.  A reader's buffer is: f may still hold    *)
(* bytes of a file that line 19 has truncated since (Seek, ReadData).      *)
(***************************************************************************)
EXTENDS Integers, Sequences, FiniteSets, TLC

(* ------------------------------ bounds -------------------------------- *)

\* scaled size of the first part (src/unpacker.py:12, 0x11AA97)
KernelSize == 1
\* scaled distance between the end of the first part and the offset of the
\* second (src/unpacker.py:12-13, 0x11AAD7 - 0x11AA97 = 0x40)
Gap == 1
\* scaled size of the second part (src/unpacker.py:13, 5505028-0x11AAD7)
SquashSize == 2
\* most bytes a buffered reader holds beyond the bytes a read() asked for
MaxAhead == 2

\* lengths of the files the runs start from: up to one byte more than the
\* table covers
MaxLen == KernelSize + Gap + SquashSize + 1

(* ------------------------------ the table ------------------------------ *)

firmware_parts ==
    << [name |-> "uimage_kernel", offset |-> 0, size |-> KernelSize],
       [name |-> "squashfs", offset |-> KernelSize + Gap, size |-> SquashSize] >>

NumParts == Len(firmware_parts)

\* firmware_parts[1:]: the entries pack goes through, the second to the last
PackPartsAll == [first |-> 1, last |-> NumParts]
PackParts == [first |-> 2, last |-> NumParts]

PartNames == { firmware_parts[n].name : n \in 1..NumParts }

(* ---------------------------- the inputs ------------------------------- *)

Prog == "unpacker.py"
ImagePath == "fw.bin"
Paths == {ImagePath} \cup PartNames
Cmds == {"unpack", "pack", "help"}

\* sys.argv: the program name, then 0, 1 or 2 arguments
Argvs ==
    {<<Prog>>} \cup { <<Prog, c>> : c \in Cmds }
               \cup { <<Prog, c, p>> : c \in Cmds, p \in Paths }

\* the content of a path that names no file (no byte is negative)
Absent == << -1 >>

\* a file of n bytes whose byte at position p is (phase + p) % 3: zero and
\* non-zero bytes, different at neighbouring positions
Pattern(phase, n) ==
    IF n = 0 THEN << >> ELSE [p \in 1..n |-> (phase + p) % 3]

PhaseOf(path) ==
    IF path = ImagePath THEN 0 ELSE IF path = "squashfs" THEN 1 ELSE 2

Contents(path) == {Absent} \cup { Pattern(PhaseOf(path), n) : n \in 0..MaxLen }

(* ------------------------------ helpers -------------------------------- *)

Min(a, b) == IF a < b THEN a ELSE b
Max(a, b) == IF a > b THEN a ELSE b

\* b'\x00' * n: n zero bytes, none when n is negative
Zeros(n) == IF n > 0 THEN [p \in 1..n |-> 0] ELSE << >>

\* what a raw read of at most n bytes at byte offset off returns
RawRead(content, off, n) ==
    IF off >= Len(content) THEN << >>
    ELSE SubSeq(content, off + 1, Min(off + n, Len(content)))

\* the file after bytes are written at byte offset pos (a hole is zeros)
WriteAt(content, pos, bytes) ==
    LET head == IF pos <= Len(content)
                THEN SubSeq(content, 1, pos)
                ELSE content \o Zeros(pos - Len(content))
        tailFrom == pos + Len(bytes) + 1
        tail == IF tailFrom <= Len(content)
                THEN SubSeq(content, tailFrom, Len(content))
                ELSE << >>
    IN head \o bytes \o tail

\* a file object: unopened, open or closed; its path, its position, and (a
\* reader) the bytes its buffer holds from that position on
NoHandle == [state |-> "unopened", path |-> "", pos |-> 0, ahead |-> << >>]
OpenHandle(path) == [state |-> "open", path |-> path, pos |-> 0, ahead |-> << >>]

VARIABLES
    argv,      \* sys.argv of the running invocation
    fs,        \* the file system: path -> content or Absent
    pc,        \* the statement the interpreter is at
    part,      \* index in firmware_parts of the loop variable part
    f,         \* the image file object
    outfile,   \* unpack: the part file being written
    i,         \* pack: the part file being read
    data,      \* the bytes last read
    padding,   \* pack: part.size - len(data)
    stdout,    \* the lines printed, as <<kind, part name, number>>
    status,    \* exit status of the invocation (-1 while it runs)
    error,     \* the exception that ended it, or "none"
    fs0,       \* the file system when the invocation started
    hist,      \* the invocations that ended: [argv, status, error, fs0]
    budget     \* invocations still to be started

vars == <<argv, fs, pc, part, f, outfile, i, data, padding, stdout, status,
          error, fs0, hist, budget>>

\* sys.argv[n] (0-based)
HasArg(n) == Len(argv) > n
Arg(n) == argv[n + 1]

Part == firmware_parts[part]

InitLocals ==
    /\ pc = "idle"
    /\ argv = <<Prog>>
    /\ part = 1
    /\ f = NoHandle
    /\ outfile = NoHandle
    /\ i = NoHandle
    /\ data = << >>
    /\ padding = 0
    /\ stdout = << >>
    /\ status = -1
    /\ error = "none"
    /\ hist = << >>

\* one invocation, from any file system
Init ==
    /\ fs \in [Paths -> UNION { Contents(p) : p \in Paths }]
    /\ \A p \in Paths : fs[p] \in Contents(p)
    /\ fs0 = fs
    /\ budget = 1
    /\ InitLocals

\* two invocations in a row, from a file system with any image and part
\* files that are missing, one byte long or as long as an image
InitTwo ==
    /\ fs \in [Paths -> UNION { Contents(p) : p \in Paths }]
    /\ \A p \in Paths : fs[p] \in Contents(p)
    /\ \A p \in PartNames :
          fs[p] \in {Absent, Pattern(PhaseOf(p), 1), Pattern(PhaseOf(p), MaxLen)}
    /\ fs0 = fs
    /\ budget = 2
    /\ InitLocals

(* ----------------------------- termination ----------------------------- *)

EndedQuietly(st, err) ==
    /\ pc' = "exited"
    /\ status' = 0
    /\ error' = err
    /\ hist' = Append(hist, [argv |-> argv, status |-> 0, error |-> err, fs0 |-> fs0])

Ended(st, err) ==
    /\ pc' = "exited"
    /\ status' = st
    /\ error' = err
    /\ hist' = Append(hist, [argv |-> argv, status |-> st, error |-> err, fs0 |-> fs0])

\* an uncaught exception: traceback, exit status 1
Raise(err) ==
    /\ Ended(1, err)
    /\ UNCHANGED <<argv, fs, part, f, outfile, i, data, padding, stdout, fs0, budget>>

\* the script ran off its end: exit status 0
Finish ==
    /\ Ended(0, "none")
    /\ UNCHANGED <<argv, fs, part, f, outfile, i, data, padding, stdout, fs0, budget>>

(* ------------------------------ dispatch ------------------------------- *)

\* the shell starts the program with some command line
Start ==
    /\ pc \in {"idle", "exited"}
    /\ budget > 0
    /\ \E a \in Argvs : argv' = a
    /\ budget' = budget - 1
    /\ pc' = "l16"
    /\ part' = 1
    /\ f' = NoHandle
    /\ outfile' = NoHandle
    /\ i' = NoHandle
    /\ data' = << >>
    /\ padding' = 0
    /\ stdout' = << >>
    /\ status' = -1
    /\ error' = "none"
    /\ fs0' = fs
    /\ UNCHANGED <<fs, hist>>

\* line 16: if sys.argv[1] == "unpack"
Dispatch16 ==
    /\ pc = "l16"
    /\ IF ~HasArg(1) THEN Raise("IndexError")
       ELSE /\ pc' = IF Arg(1) = "unpack" THEN "u17" ELSE "l25"
            /\ UNCHANGED <<argv, fs, part, f, outfile, i, data, padding, stdout,
                           status, error, fs0, hist, budget>>

\* line 25: elif sys.argv[1] == "pack"; no else branch
Dispatch25 ==
    /\ pc = "l25"
    /\ IF Arg(1) = "pack"
       THEN /\ pc' = "p26"
            /\ UNCHANGED <<argv, fs, part, f, outfile, i, data, padding, stdout,
                           status, error, fs0, hist, budget>>
       ELSE Finish

(* ------------------------- the buffered reader ------------------------- *)

\* f.seek(target, 0) on a buffered reader: a target inside the bytes the
\* buffer holds moves the position and keeps the buffer; any other target
\* drops the buffer.  (The buffer is modelled from the position on: the
\* table's offsets ascend, so no seek goes backwards.)
Seek(h, target) ==
    IF Len(h.ahead) > 0 /\ target >= h.pos /\ target <= h.pos + Len(h.ahead)
    THEN [h EXCEPT !.pos = target,
                   !.ahead = SubSeq(h.ahead, target - h.pos + 1, Len(h.ahead))]
    ELSE [h EXCEPT !.pos = target, !.ahead = << >>]

\* f.read(n): the buffered bytes first, the rest from the file as it is now
FromBuffer(h, n) == SubSeq(h.ahead, 1, Min(n, Len(h.ahead)))
FromFile(h, content, n) ==
    IF n > Len(h.ahead)
    THEN RawRead(content, h.pos + Len(h.ahead), n - Len(h.ahead))
    ELSE << >>
ReadData(h, content, n) == FromBuffer(h, n) \o FromFile(h, content, n)

\* the reader after f.read(n); when it went to the file it may have read up
\* to more bytes ahead into its buffer
AfterRead(h, content, n, more) ==
    LET got == ReadData(h, content, n)
    IN [h EXCEPT !.pos = h.pos + Len(got),
                 !.ahead = IF n > Len(h.ahead)
                           THEN RawRead(content, h.pos + Len(got), more)
                           ELSE SubSeq(h.ahead, n + 1, Len(h.ahead))]

(* ------------------------------- unpack -------------------------------- *)

\* line 17: f = open(sys.argv[2], "rb")
UnpackOpen ==
    /\ pc = "u17"
    /\ IF ~HasArg(2) THEN Raise("IndexError")
       ELSE IF fs[Arg(2)] = Absent THEN Raise("FileNotFoundError")
       ELSE /\ f' = OpenHandle(Arg(2))
            /\ part' = 1
            /\ pc' = "u18"
            /\ UNCHANGED <<argv, fs, outfile, i, data, padding, stdout, status,
                           error, fs0, hist, budget>>

\* line 18: for part in firmware_parts
UnpackLoop ==
    /\ pc = "u18"
    /\ IF part > NumParts THEN Finish
       ELSE /\ pc' = "u19"
            /\ UNCHANGED <<argv, fs, part, f, outfile, i, data, padding, stdout,
                           status, error, fs0, hist, budget>>

\* line 19: outfile = open(part.name, "wb"): creates or truncates the file
UnpackOutOpen ==
    /\ pc = "u19"
    /\ fs' = [fs EXCEPT ![Part.name] = << >>]
    /\ outfile' = OpenHandle(Part.name)
    /\ pc' = "u20"
    /\ UNCHANGED <<argv, part, f, i, data, padding, stdout, status, error, fs0,
                   hist, budget>>

\* line 20: f.seek(part.offset, 0)
UnpackSeek ==
    /\ pc = "u20"
    /\ f' = Seek(f, Part.offset)
    /\ pc' = "u21"
    /\ UNCHANGED <<argv, fs, part, outfile, i, data, padding, stdout, status,
                   error, fs0, hist, budget>>

\* line 21: data = f.read(part.size)
UnpackRead ==
    /\ pc = "u21"
    /\ data' = ReadData(f, fs[f.path], Part.size)
    /\ \E more \in 0..MaxAhead : f' = AfterRead(f, fs[f.path], Part.size, more)
    /\ pc' = "u22"
    /\ UNCHANGED <<argv, fs, part, outfile, i, padding, stdout, status, error,
                   fs0, hist, budget>>

\* line 22: outfile.write(data)
UnpackWrite ==
    /\ pc = "u22"
    /\ fs' = [fs EXCEPT ![outfile.path] = WriteAt(@, outfile.pos, data)]
    /\ outfile' = [outfile EXCEPT !.pos = @ + Len(data)]
    /\ pc' = "u23"
    /\ UNCHANGED <<argv, part, f, i, data, padding, stdout, status, error, fs0,
                   hist, budget>>

\* line 23: outfile.close()
UnpackClose ==
    /\ pc = "u23"
    /\ outfile' = [outfile EXCEPT !.state = "closed"]
    /\ pc' = "u24"
    /\ UNCHANGED <<argv, fs, part, f, i, data, padding, stdout, status, error,
                   fs0, hist, budget>>

\* line 24: print(f"Wrote {part.name} - {hex(len(data))} bytes"), then the
\* loop takes the next part
UnpackPrint ==
    /\ pc = "u24"
    /\ stdout' = Append(stdout, <<"Wrote", Part.name, Len(data)>>)
    /\ part' = part + 1
    /\ pc' = "u18"
    /\ UNCHANGED <<argv, fs, f, outfile, i, data, padding, status, error, fs0,
                   hist, budget>>

(* -------------------------------- pack --------------------------------- *)

\* line 26: f = open(sys.argv[2], "wb"): creates or truncates the file
PackOpen ==
    /\ pc = "p26"
    /\ IF ~HasArg(2) THEN Raise("IndexError")
       ELSE /\ fs' = [fs EXCEPT ![Arg(2)] = << >>]
            /\ f' = OpenHandle(Arg(2))
            /\ part' = PackParts.first
            /\ pc' = "p27"
            /\ UNCHANGED <<argv, outfile, i, data, padding, stdout, status, error,
                           fs0, hist, budget>>

\* line 27: for part in firmware_parts[1:]
PackLoop ==
    /\ pc = "p27"
    /\ IF part > PackParts.last THEN Finish
       ELSE /\ pc' = "p28"
            /\ UNCHANGED <<argv, fs, part, f, outfile, i, data, padding, stdout,
                           status, error, fs0, hist, budget>>

\* line 28: i = open(part.name, "rb")
PackPartOpen ==
    /\ pc = "p28"
    /\ IF fs[Part.name] = Absent THEN Raise("FileNotFoundError")
       ELSE /\ i' = OpenHandle(Part.name)
            /\ pc' = "p29"
            /\ UNCHANGED <<argv, fs, part, f, outfile, data, padding, stdout,
                           status, error, fs0, hist, budget>>

\* line 29: data = i.read(): the whole file
PackRead ==
    /\ pc = "p29"
    /\ data' = RawRead(fs[i.path], i.pos, Len(fs[i.path]))
    /\ i' = [i EXCEPT !.pos = Len(fs[i.path])]
    /\ pc' = "p30"
    /\ UNCHANGED <<argv, fs, part, f, outfile, padding, stdout, status, error,
                   fs0, hist, budget>>

\* line 30: f.write(data)
PackWrite ==
    /\ pc = "p30"
    /\ fs' = [fs EXCEPT ![f.path] = WriteAt(@, f.pos, data)]
    /\ f' = [f EXCEPT !.pos = @ + Len(data)]
    /\ pc' = "p31"
    /\ UNCHANGED <<argv, part, outfile, i, data, padding, stdout, status, error,
                   fs0, hist, budget>>

\* line 31: padding = (part.size - len(data))
PaddingOfOffByOne(size, bytes) == size - Len(bytes) + 1
PaddingOf(size, bytes) == size - Len(bytes)

PackPadding ==
    /\ pc = "p31"
    /\ padding' = PaddingOf(Part.size, data)
    /\ pc' = "p32"
    /\ UNCHANGED <<argv, fs, part, f, outfile, i, data, stdout, status, error,
                   fs0, hist, budget>>

\* lines 32-33: the two prints
PackPrint ==
    /\ pc = "p32"
    /\ stdout' = stdout \o << <<"Wrote", Part.name, Len(data)>>,
                              <<"Padding", "", padding>> >>
    /\ pc' = "p34"
    /\ UNCHANGED <<argv, fs, part, f, outfile, i, data, padding, status, error,
                   fs0, hist, budget>>

\* line 34: f.write(b'\x00' * padding), then the loop takes the next part
PackPad ==
    /\ pc = "p34"
    /\ fs' = [fs EXCEPT ![f.path] = WriteAt(@, f.pos, Zeros(padding))]
    /\ f' = [f EXCEPT !.pos = @ + Len(Zeros(padding))]
    /\ part' = part + 1
    /\ pc' = "p27"
    /\ UNCHANGED <<argv, outfile, i, data, padding, stdout, status, error, fs0,
                   hist, budget>>

(* ---------------------------- specifications --------------------------- *)

Next ==
    \/ Start
    \/ Dispatch16
    \/ Dispatch25
    \/ UnpackOpen
    \/ UnpackLoop
    \/ UnpackOutOpen
    \/ UnpackSeek
    \/ UnpackRead
    \/ UnpackWrite
    \/ UnpackClose
    \/ UnpackPrint
    \/ PackOpen
    \/ PackLoop
    \/ PackPartOpen
    \/ PackRead
    \/ PackWrite
    \/ PackPadding
    \/ PackPrint
    \/ PackPad

\* one invocation
Spec == Init /\ [][Next]_vars

\* two invocations in a row
SpecTwo == InitTwo /\ [][Next]_vars

(* ------------------------- words for the claims ----------------------- *)

Running(cmd) == pc # "idle" /\ HasArg(1) /\ Arg(1) = cmd
Exited(cmd) == pc = "exited" /\ Running(cmd)

\* the bytes the lines printed so far say were written to the image
RECURSIVE Written(_)
Written(out) ==
    IF out = << >> THEN 0
    ELSE Written(SubSeq(out, 1, Len(out) - 1)) +
         (IF out[Len(out)][1] = "Wrote" THEN out[Len(out)][3]
          ELSE Max(out[Len(out)][3], 0))

\* no part printed so far was longer than its declared size
NoOversize == \A n \in 1..Len(stdout) : stdout[n][1] = "Padding" => stdout[n][3] >= 0

\* the declared sizes of the table's entries from..to, added up
RECURSIVE SumSizes(_, _)
SumSizes(from, to) ==
    IF from > to THEN 0 ELSE firmware_parts[to].size + SumSizes(from, to - 1)

\* a part's bytes followed by zeros up to size
Padded(bytes, size) == bytes \o Zeros(size - Len(bytes))

(* -------------------------------- C1 ----------------------------------- *)

\* C1 (padding law).  What pack reads for a descriptor is the whole part
\* file; and once pack is through with a descriptor (any but the first) whose
\* part had L <= size bytes, the image ends with those L bytes followed by
\* size - L zero bytes, and the image grew by exactly size bytes.
PaddingLaw ==
    /\ (Running("pack") /\ pc = "p30") => data = fs[Part.name]
    /\ (Running("pack") /\ pc \in {"p27", "exited"} /\ Len(stdout) >= 2
          /\ Len(data) <= firmware_parts[part - 1].size)
       => LET size == firmware_parts[part - 1].size
              start == Written(SubSeq(stdout, 1, Len(stdout) - 2))
              image == fs[f.path]
          IN /\ Len(image) = start + size
             /\ SubSeq(image, start + 1, Len(image)) = data \o Zeros(size - Len(data))
             /\ padding = size - Len(data)

PaddingLawWitness ==
    /\ Exited("pack") /\ status = 0
    /\ Len(data) > 0 /\ Len(data) < firmware_parts[part - 1].size
    /\ \E n \in 1..Len(data) : data[n] # 0

(* -------------------------------- C2 ----------------------------------- *)

\* C2 (oversize rejection).  A pack that processed a part longer than its
\* declared size does not end with exit status 0.
OversizeRejected ==
    (Exited("pack") /\ ~NoOversize) => status # 0

(* -------------------------------- C3 ----------------------------------- *)

\* C3 (short source rejection).  An unpack of an existing source image that
\* is shorter than offset + size of some descriptor does not end with exit
\* status 0.
ShortSourceRejected ==
    (/\ Exited("unpack") /\ HasArg(2) /\ fs0[Arg(2)] # Absent
     /\ \E n \in 1..NumParts :
           Len(fs0[Arg(2)]) < firmware_parts[n].offset + firmware_parts[n].size)
    => status # 0

(* -------------------------------- C4 ----------------------------------- *)

\* what C4 asks of a finished unpack of the source image src
Extracted(src) ==
    /\ \A n \in 1..NumParts :
          Len(src) >= firmware_parts[n].offset + firmware_parts[n].size
          => fs[firmware_parts[n].name]
               = SubSeq(src, firmware_parts[n].offset + 1,
                        firmware_parts[n].offset + firmware_parts[n].size)
    /\ Len(stdout) = NumParts
    /\ \A n \in 1..NumParts : stdout[n][2] = firmware_parts[n].name

\* C4 (unpack extraction).  After a successful unpack, for every descriptor
\* the source image given was long enough for, the file named after the
\* descriptor holds exactly the source image's bytes at [offset, offset +
\* size), and one file was written per descriptor, in table order.
UnpackExtraction ==
    (Exited("unpack") /\ status = 0) => Extracted(fs0[Arg(2)])

\* the same, for a source image path that is none of the part files' names
UnpackExtractionOfSeparateImage ==
    (Exited("unpack") /\ status = 0 /\ Arg(2) \notin PartNames)
    => Extracted(fs0[Arg(2)])

UnpackExtractionWitness ==
    /\ Exited("unpack") /\ status = 0 /\ Arg(2) \notin PartNames
    /\ \A n \in 1..NumParts :
          Len(fs0[Arg(2)]) >= firmware_parts[n].offset + firmware_parts[n].size

(* -------------------------------- C5 ----------------------------------- *)

\* an unpack that succeeded on a source image covering every descriptor,
\* then a pack that succeeded
UnpackedThenPacked ==
    /\ pc = "exited" /\ Len(hist) = 2
    /\ Len(hist[1].argv) = 3 /\ hist[1].argv[2] = "unpack" /\ hist[1].status = 0
    /\ Len(hist[2].argv) = 3 /\ hist[2].argv[2] = "pack" /\ hist[2].status = 0
    /\ \A n \in 1..NumParts :
          Len(hist[1].fs0[hist[1].argv[3]])
            >= firmware_parts[n].offset + firmware_parts[n].size

\* the destination image is the source image's region of the second
\* descriptor, and pack padded nothing
RoundTripResult ==
    /\ fs[hist[2].argv[3]]
         = SubSeq(hist[1].fs0[hist[1].argv[3]], firmware_parts[2].offset + 1,
                  firmware_parts[2].offset + firmware_parts[2].size)
    /\ padding = 0

\* C5 (round trip).  Unpack of a source image long enough for every
\* descriptor, then pack: the destination image equals the source image's
\* region [offset, offset + size) of the second descriptor, and the padding
\* length is zero.
RoundTrip == UnpackedThenPacked => RoundTripResult

\* the same, when the source image is none of the part files and the
\* destination image is none of the part files pack reads
RoundTripOfSeparateImages ==
    (/\ UnpackedThenPacked
     /\ hist[1].argv[3] \notin PartNames
     /\ hist[2].argv[3] \notin { firmware_parts[n].name : n \in 2..NumParts })
    => RoundTripResult

(* -------------------------------- C6 ----------------------------------- *)

\* the image pack builds from the part files as they were when it started
\* (a part file that is the destination itself is empty by then)
RECURSIVE PackedImage(_, _)
PackedImage(dest, to) ==
    IF to < 2 THEN << >>
    ELSE PackedImage(dest, to - 1)
         \o Padded(IF firmware_parts[to].name = dest THEN << >>
                   ELSE fs0[firmware_parts[to].name],
                   firmware_parts[to].size)

\* C6 (pack ordering, skipped first entry).  Pack starts from an empty
\* destination image; it opens no part file for the first descriptor; its
\* reports name the second, third, ... descriptor in table order; whenever
\* it is about to take a descriptor's part, the image holds exactly the
\* complete regions of the descriptors before it; and a pack that succeeded
\* with no oversize part leaves an image as long as the declared sizes of all
\* descriptors but the first, made of their padded parts in table order.
PackOrdering ==
    /\ (Running("pack") /\ pc = "p27" /\ stdout = << >>) => fs[f.path] = << >>
    /\ (Running("pack") /\ i.state # "unopened") => i.path # firmware_parts[1].name
    /\ Running("pack")
       => \A n \in 1..Len(stdout) :
             stdout[n][1] = "Wrote"
             => stdout[n][2] = firmware_parts[((n + 1) \div 2) + 1].name
    /\ (Running("pack") /\ pc \in {"p27", "p28", "p29", "p30"})
       => /\ Len(fs[f.path]) = Written(stdout)
          /\ NoOversize => Len(fs[f.path]) = SumSizes(2, part - 1)
    /\ (Exited("pack") /\ status = 0 /\ NoOversize)
       => /\ Len(fs[Arg(2)]) = SumSizes(2, NumParts)
          /\ fs[Arg(2)] = PackedImage(Arg(2), NumParts)

PackOrderingWitness ==
    /\ Exited("pack") /\ status = 0 /\ NoOversize
    /\ fs0[Arg(2)] # Absent /\ Len(fs0[Arg(2)]) > 0
    /\ fs0[firmware_parts[1].name] # Absent
    /\ Len(stdout) = 2 * (NumParts - 1)
    /\ Len(data) > 0

(* -------------------------------- C7 ----------------------------------- *)

\* C7 (unpack leaves the source image unchanged).  After an unpack of an
\* existing source image, whatever its path, the source image's content is
\* what it was before.
SourceUnchanged ==
    (Exited("unpack") /\ HasArg(2) /\ fs0[Arg(2)] # Absent)
    => fs[Arg(2)] = fs0[Arg(2)]

(* -------------------------------- C8 ----------------------------------- *)

\* C8 (usage errors).  An invocation with no subcommand, with a subcommand
\* that is neither "unpack" nor "pack", or with no image path, does not end
\* with exit status 0.
UsageErrorsFail ==
    (pc = "exited" /\ (~HasArg(2) \/ Arg(1) \notin {"unpack", "pack"}))
    => status # 0

(* -------------------------------- C9 ----------------------------------- *)

\* C9 (a missing part file aborts pack).  When pack reaches a descriptor
\* whose part file does not exist, its next step ends the invocation with a
\* non-zero exit status and changes no file; and a pack that ended that way
\* left in the image only the complete regions of the descriptors before.
MissingPartAborts ==
    /\ [][(Running("pack") /\ pc = "p28" /\ fs[Part.name] = Absent)
            => (pc' = "exited" /\ status' # 0 /\ fs' = fs)]_vars
    /\ []((Exited("pack") /\ error = "FileNotFoundError")
            => (status # 0 /\ Len(fs[f.path]) = Written(stdout)))

MissingPartAbortsWitness ==
    /\ Exited("pack") /\ error = "FileNotFoundError"
    /\ f.state = "open" /\ fs[Part.name] = Absent /\ fs[f.path] = << >>

(* -------------------------------- C10 ---------------------------------- *)

\* C10 (file handle scoping).  No invocation ends with a file object it
\* opened not closed by the program.
HandlesClosed ==
    pc = "exited"
    => (f.state # "open" /\ outfile.state # "open" /\ i.state # "open")

====
